---------------------------- MODULE Spec2Model ----------------------------
(***************************************************************************)
(* laravel-mix-s3-uploader: a webpack plugin that collects the build's     *)
(* output files in the "emit" hook and PUTs them one by one to an S3       *)
(* bucket in the "afterEmit" hook.                                         *)
(*                                                                         *)
(* The model follows the current variant of the plugin                     *)
(* (src/laravel-mix-s3-uploader.js, lines 284-592).  Strings are sequences *)
(* of one-character strings, so that startsWith, slice, replace and split  *)
(* are computed character by character as the JavaScript does.             *)
(***************************************************************************)
EXTENDS Integers, Sequences, FiniteSets, TLC

(***************************************************************************)
(* Bounds of the model.                                                    *)
(***************************************************************************)
MaxCycles == 2
MaxStrLen == 4
MaxPathLen == 3
MaxExcludes == 2
MaxExcludeLen == 1

(***************************************************************************)
(* JavaScript values.  An optional property is None (undefined) or         *)
(* Some(v).                                                                *)
(***************************************************************************)
None == <<>>
Some(v) == <<v>>

Alphabet == {"/", "\\", "a"}

RECURSIVE StringsUpTo(_)
StringsUpTo(n) ==
    IF n = 0 THEN {<<>>}
    ELSE LET shorter == StringsUpTo(n - 1)
         IN  shorter \cup {Append(s, ch) : s \in shorter, ch \in Alphabet}

RECURSIVE ListsUpTo(_, _)
ListsUpTo(S, n) ==
    IF n = 0 THEN {<<>>}
    ELSE LET shorter == ListsUpTo(S, n - 1)
         IN  shorter \cup {Append(l, e) : l \in shorter, e \in S}

\* if (options.source), if (this.prefix): a string is truthy when it is
\* defined and not empty.
TruthyString(o) == o # None /\ o[1] # <<>>

\* String.prototype.startsWith
StartsWith(s, p) == Len(p) <= Len(s) /\ SubSeq(s, 1, Len(p)) = p

\* String.prototype.slice(n), n >= 0
Slice(s, n) == SubSeq(s, n + 1, Len(s))

\* str.replace(/\\/g, '/')
ReplaceBackslashes(s) == [k \in 1..Len(s) |-> IF s[k] = "\\" THEN "/" ELSE s[k]]

\* asset.split('?')[0]
RECURSIVE SplitQuestion(_)
SplitQuestion(s) ==
    IF s = <<>> \/ Head(s) = "?" THEN <<>>
    ELSE <<Head(s)>> \o SplitQuestion(Tail(s))

\* String(undefined), what startsWith(undefined) searches for
UndefinedString == <<"u", "n", "d", "e", "f", "i", "n", "e", "d">>

(***************************************************************************)
(* State.                                                                  *)
(***************************************************************************)
VARIABLES
    source,          \* this.source: None or Some(string)
    prefix,          \* this.prefix: None or Some(string)
    includes,        \* this.includes: None or Some(list of directories)
    excludes,        \* this.excludes: None or Some(list of path prefixes)
    quiet,           \* this.quiet: None or Some(TRUE)
    filesToUpload,   \* this.filesToUpload
    pc,              \* where the host's build pipeline stands
    cycle,           \* number of builds started on this plugin instance
    compilation,     \* the compilation object handed to the emit hook
    emitBase,        \* this.filesToUpload.length when the emit hook started
    emitCb,          \* calls of the emit hook's callback, this invocation
    cbOk,            \* calls cb() of the afterEmit hook, this invocation
    cbErr,           \* calls cb(e) of the afterEmit hook, this invocation
    pos,             \* position of the for-of loop in this.filesToUpload
    c,               \* the loop's progress counter
    error,           \* the loop's error flag
    inflight,        \* PUT requests sent and not yet answered
    puts,            \* PUT requests issued by this run of afterEmit
    barUpdates,      \* values passed to bar.update by this run
    barStopped,      \* bar.stop() was called by this run
    console,         \* messages written by console.log in this run
    arg,             \* argument of the function under test
    ret              \* values returned by the function under test

instVars == <<source, prefix, includes, excludes, quiet>>
hookVars == <<pc, cycle, compilation, emitBase, emitCb, cbOk, cbErr>>
loopVars == <<pos, c, error, inflight, puts, barUpdates, barStopped, console>>
callVars == <<arg, ret>>
vars == <<instVars, filesToUpload, hookVars, loopVars, callVars>>

(***************************************************************************)
(* Helpers of the plugin.                                                  *)
(***************************************************************************)
\* Mutation of removeSlashes: the regular expression without its anchors.
removeSlashesNoAnchors(str) == SelectSeq(str, LAMBDA ch : ch # "/")

\* str.replace(/^\/|\/$/g, ''): the slash at index 0 is removed, then the
\* slash at the last index unless it is the one already removed.
removeSlashes(str) ==
    LET a == IF Len(str) > 0 /\ str[1] = "/" THEN Tail(str) ELSE str
    IN  IF Len(a) > 0 /\ a[Len(a)] = "/" THEN SubSeq(a, 1, Len(a) - 1) ELSE a

\* The for-of loop of isExcluded from entry k on; filename is reassigned to
\* its normalised form in every iteration.
RECURSIVE excludedFrom(_, _, _)
excludedFrom(list, k, filename) ==
    IF k > Len(list) THEN FALSE
    ELSE LET exclude == ReplaceBackslashes(list[k])
             fname == ReplaceBackslashes(filename)
         IN  IF StartsWith(fname, exclude) THEN TRUE
             ELSE excludedFrom(list, k + 1, fname)

\* Mutation of isExcluded: the candidate path is not normalised.
RECURSIVE excludedFromRaw(_, _, _)
excludedFromRaw(list, k, filename) ==
    IF k > Len(list) THEN FALSE
    ELSE IF StartsWith(filename, ReplaceBackslashes(list[k])) THEN TRUE
         ELSE excludedFromRaw(list, k + 1, filename)

isExcludedRaw(filename) ==
    IF excludes # None /\ Len(excludes[1]) > 0
    THEN excludedFromRaw(excludes[1], 1, filename)
    ELSE FALSE

isExcluded(filename) ==
    IF excludes # None /\ Len(excludes[1]) > 0
    THEN excludedFrom(excludes[1], 1, filename)
    ELSE FALSE

shouldUpload(filename) == ~isExcluded(filename)

(***************************************************************************)
(* The file system the include directories are read from.                  *)
(*     a/b/y.txt    a/x.txt    ab/z.js                                     *)
(***************************************************************************)
DirA == <<"a">>
DirAB == <<"a", "b">>
DirA_B == <<"a", "/", "b">>
DirNX == <<"n", "x">>
NameB == <<"b">>
NameX == <<"x", ".", "t", "x", "t">>
NameY == <<"y", ".", "t", "x", "t">>
NameZ == <<"z", ".", "j", "s">>

FsIsDirectory(p) == p \in {DirA, DirA_B, DirAB}

\* fs.readdirSync of an existing directory
readdirSync(p) ==
    IF p = DirA THEN <<NameB, NameX>>
    ELSE IF p = DirA_B THEN <<NameY>>
    ELSE <<NameZ>>

\* path.join(currentPath, item) for directory paths without ".", ".." or
\* doubled separators, which is all the roots of the model
pathJoin(currentPath, item) == currentPath \o <<"/">> \o item

\* The body of getIncludes for one file: strip the source, filter again,
\* normalise, push.  self.source undefined makes startsWith look for
\* "undefined", and self.source.length throw when that is found.
pushFile(itemPath, files) ==
    IF source = None
    THEN IF StartsWith(itemPath, UndefinedString)
         THEN [threw |-> TRUE, files |-> files]
         ELSE [threw |-> FALSE,
               files |-> IF shouldUpload(itemPath)
                         THEN Append(files, ReplaceBackslashes(itemPath))
                         ELSE files]
    ELSE LET stripped == IF StartsWith(itemPath, source[1])
                         THEN Slice(itemPath, Len(source[1]) + 1)
                         ELSE itemPath
         IN  [threw |-> FALSE,
              files |-> IF shouldUpload(stripped)
                        THEN Append(files, ReplaceBackslashes(stripped))
                        ELSE files]

\* traverse(currentPath) and its items.forEach, from item k on.  readdirSync
\* of a path that is not a directory throws.
RECURSIVE traverse(_, _)
RECURSIVE forEachItem(_, _, _, _)
traverse(currentPath, files) ==
    IF ~FsIsDirectory(currentPath)
    THEN [threw |-> TRUE, files |-> files]
    ELSE forEachItem(currentPath, readdirSync(currentPath), 1, files)

forEachItem(currentPath, items, k, files) ==
    IF k > Len(items) THEN [threw |-> FALSE, files |-> files]
    ELSE LET itemPath == removeSlashes(pathJoin(currentPath, items[k]))
             isDirectory == FsIsDirectory(itemPath)
             r == IF shouldUpload(itemPath)
                  THEN IF isDirectory
                       THEN traverse(itemPath, files)
                       ELSE pushFile(itemPath, files)
                  ELSE [threw |-> FALSE, files |-> files]
         IN  IF r.threw THEN r
             ELSE forEachItem(currentPath, items, k + 1, r.files)

\* dirs.forEach(traverse), from directory k on
RECURSIVE forEachDir(_, _, _)
forEachDir(dirs, k, files) ==
    IF k > Len(dirs) THEN [threw |-> FALSE, files |-> files]
    ELSE LET r == traverse(dirs[k], files)
         IN  IF r.threw THEN r ELSE forEachDir(dirs, k + 1, r.files)

getIncludes(dirs) == forEachDir(dirs, 1, <<>>)

(***************************************************************************)
(* Construction (the state the plugin is in after `new S3Uploader(...)`).  *)
(***************************************************************************)
StrP == <<"p">>
StrSlash == <<"/">>

OptionSources == {None, Some(DirA), Some(<<"/", "a", "/">>), Some(StrSlash)}
OptionPrefixes == {None, Some(StrP), Some(<<"/", "p", "/">>), Some(StrSlash)}
OptionIncludes == {None, Some(<<DirA>>), Some(<<DirA, DirAB>>), Some(<<DirNX>>)}
OptionExcludes == {None, Some(<<DirA_B>>), Some(<<<<"x">>>>)}
OptionQuiet == {None, Some(TRUE)}

Options ==
    [source : OptionSources, prefix : OptionPrefixes, includes : OptionIncludes,
     excludes : OptionExcludes, quiet : OptionQuiet]

\* The per-build observations, before any hook has run.
NoRun ==
    /\ emitBase = 0 /\ emitCb = 0 /\ cbOk = 0 /\ cbErr = 0
    /\ pos = 0 /\ c = 0 /\ error = FALSE
    /\ inflight = {} /\ puts = <<>>
    /\ barUpdates = <<>> /\ barStopped = FALSE /\ console = <<>>

LaravelMixS3Uploader(options) ==
    /\ filesToUpload = <<>>
    /\ source = IF TruthyString(options.source)
                THEN Some(removeSlashes(options.source[1])) ELSE None
    /\ prefix = IF TruthyString(options.prefix)
                THEN Some(removeSlashes(options.prefix[1])) ELSE None
    /\ includes = options.includes
    /\ excludes = options.excludes
    /\ quiet = options.quiet

Init ==
    /\ \E options \in Options : LaravelMixS3Uploader(options)
    /\ pc = "idle" /\ cycle = 0 /\ compilation = [assets |-> <<>>]
    /\ NoRun
    /\ arg = <<>> /\ ret = <<>>

(***************************************************************************)
(* The emit hook.                                                          *)
(***************************************************************************)
AssetF == <<"f", ".", "j", "s">>
AssetFQuery == <<"/", "f", ".", "j", "s", "?", "1">>

\* Keys of compilation.assets, in insertion order, of the builds of the model
AssetLists == {<<>>, <<AssetF>>, <<AssetFQuery, NameX>>}

\* obj[name]: undefined when the object has no such property
property(obj, name) == IF name \in DOMAIN obj THEN Some(obj[name]) ELSE None

\* for (const filename in o): no iteration when o is undefined
forInKeys(o) == IF o = None THEN <<>> ELSE o[1]

Emit(assets) ==
    /\ pc \in {"idle", "afterDone"}
    /\ cycle < MaxCycles
    /\ LET comp == [assets |-> assets]
           pushed == filesToUpload \o
                     SelectSeq(forInKeys(property(comp, "filesToUpload")), shouldUpload)
           walked == IF includes # None THEN getIncludes(includes[1])
                     ELSE [threw |-> FALSE, files |-> <<>>]
       IN  /\ compilation' = comp
           /\ IF walked.threw
              THEN /\ filesToUpload' = pushed
                   /\ emitCb' = 0
                   /\ pc' = "emitThrew"
              ELSE /\ filesToUpload' = pushed \o walked.files
                   /\ emitCb' = 1
                   /\ pc' = "emitted"
    /\ emitBase' = Len(filesToUpload)
    /\ cycle' = cycle + 1
    /\ cbOk' = 0 /\ cbErr' = 0
    /\ pos' = 0 /\ c' = 0 /\ error' = FALSE
    /\ inflight' = {} /\ puts' = <<>>
    /\ barUpdates' = <<>> /\ barStopped' = FALSE /\ console' = <<>>
    /\ UNCHANGED <<instVars, callVars>>

(***************************************************************************)
(* The afterEmit hook: the upload loop.                                    *)
(***************************************************************************)
\* Mutation of log: the quiet flag is ignored.
logAlways(message, out) == Append(out, message)

log(message, out) ==
    IF quiet # None /\ quiet[1] THEN out ELSE Append(out, message)

\* asset.split('?')[0], then removeSlashes
fileName(asset) == removeSlashes(SplitQuestion(asset))

\* Mutation of remotePath: the source is prepended as well as the prefix.
remotePathBoth(filename) ==
    LET withSource == IF TruthyString(source)
                      THEN source[1] \o <<"/">> \o filename ELSE filename
    IN  IF TruthyString(prefix) THEN prefix[1] \o <<"/">> \o withSource
        ELSE withSource

remotePath(filename) ==
    IF TruthyString(prefix) THEN prefix[1] \o <<"/">> \o filename
    ELSE IF TruthyString(source) THEN source[1] \o <<"/">> \o filename
    ELSE filename

\* What s3.send(command) can do: answer with a status, or throw.
Ok200 == [kind |-> "response", status |-> "200"]
PutResults == {Ok200, [kind |-> "response", status |-> "403"],
               [kind |-> "throw", status |-> "none"]}

\* Mutation of upload: any response resolves.
uploadAnyResponse(result) ==
    IF result.kind = "response" THEN "resolve" ELSE "reject"

\* upload(): how the promise settles
upload(result) ==
    IF result.kind = "response" /\ result.status = "200" THEN "resolve"
    ELSE "reject"

\* Mutation of returnsOn: the loop goes on after an error.
returnsNever(err) == FALSE

\* if (error) { return; }
returnsOn(err) == err

\* The loop body from position p on, up to the next await or the end of the
\* callback.  run holds the console, the PUTs and the cb() calls so far.
Iterate(p, cnt, run, readOk) ==
    /\ pos' = p
    /\ c' = cnt
    /\ IF p > Len(filesToUpload)
       THEN /\ barStopped' = TRUE
            /\ console' = log("Finished!", run.console)
            /\ cbOk' = run.cbOk + 1
            /\ puts' = run.puts
            /\ inflight' = {}
            /\ pc' = "afterDone"
       ELSE IF ~readOk
       THEN \* fs.readFileSync throws and the async callback rejects
            /\ barStopped' = FALSE
            /\ console' = run.console
            /\ cbOk' = run.cbOk
            /\ puts' = run.puts
            /\ inflight' = {}
            /\ pc' = "afterThrew"
       ELSE LET put == [pos |-> p, asset |-> filesToUpload[p],
                        key |-> remotePath(fileName(filesToUpload[p])),
                        outcome |-> "pending"]
            IN  /\ barStopped' = FALSE
                /\ console' = run.console
                /\ cbOk' = run.cbOk
                /\ puts' = Append(run.puts, put)
                /\ inflight' = {p}
                /\ pc' = "awaitPut"

AfterEmit(readOk) ==
    /\ pc = "emitted"
    /\ barUpdates' = <<>>
    /\ error' = FALSE
    /\ cbErr' = 0
    /\ Iterate(1, 1, [console |-> log("Uploading", <<>>), puts |-> <<>>, cbOk |-> 0],
               readOk)
    /\ UNCHANGED <<instVars, filesToUpload, cycle, compilation, emitBase, emitCb,
                   callVars>>

\* The awaited upload settles.
PutReturn(result, readOk) ==
    /\ pc = "awaitPut"
    /\ LET settled == upload(result)
           err == IF settled = "reject" THEN TRUE ELSE error
           answered == [puts EXCEPT ![Len(puts)].outcome =
                            IF result = Ok200 THEN "ok" ELSE "failed"]
           run == [console |-> console, puts |-> answered, cbOk |-> cbOk]
       IN  /\ error' = err
           /\ cbErr' = IF settled = "reject" THEN cbErr + 1 ELSE cbErr
           /\ IF returnsOn(err)
              THEN /\ pc' = "afterDone"
                   /\ inflight' = {}
                   /\ puts' = answered
                   /\ UNCHANGED <<pos, c, barUpdates, barStopped, console, cbOk>>
              ELSE /\ barUpdates' = Append(barUpdates, c)
                   /\ Iterate(pos + 1, c + 1, run, readOk)
    /\ UNCHANGED <<instVars, filesToUpload, cycle, compilation, emitBase, emitCb,
                   callVars>>

Next ==
    \/ \E assets \in AssetLists : Emit(assets)
    \/ \E readOk \in BOOLEAN : AfterEmit(readOk)
    \/ \E result \in PutResults, readOk \in BOOLEAN : PutReturn(result, readOk)

Spec == Init /\ [][Next]_vars

(***************************************************************************)
(* Specifications that apply one helper to inputs drawn from bounded sets. *)
(***************************************************************************)
Detached ==
    /\ filesToUpload = <<>>
    /\ pc = "call" /\ cycle = 0 /\ compilation = [assets |-> <<>>]
    /\ NoRun
    /\ prefix = None /\ quiet = None

ApplyRemoveSlashes ==
    /\ Len(ret) < 2
    /\ ret' = Append(ret, removeSlashes(IF ret = <<>> THEN arg ELSE ret[Len(ret)]))
    /\ UNCHANGED <<instVars, filesToUpload, hookVars, loopVars, arg>>

InitRemoveSlashes ==
    /\ Detached
    /\ source = None /\ includes = None /\ excludes = None
    /\ arg \in StringsUpTo(MaxStrLen)
    /\ ret = <<>>

SpecRemoveSlashes == InitRemoveSlashes /\ [][ApplyRemoveSlashes]_vars

ApplyShouldUpload ==
    /\ ret = <<>>
    /\ ret' = <<shouldUpload(arg), isExcluded(arg)>>
    /\ UNCHANGED <<instVars, filesToUpload, hookVars, loopVars, arg>>

InitFilter ==
    /\ Detached
    /\ source = None /\ includes = None
    /\ excludes \in {None} \cup
           {Some(l) : l \in ListsUpTo(StringsUpTo(MaxExcludeLen), MaxExcludes)}
    /\ arg \in StringsUpTo(MaxPathLen)
    /\ ret = <<>>

SpecFilter == InitFilter /\ [][ApplyShouldUpload]_vars

WalkerSources == {None, Some(DirA), Some(DirAB), Some(DirA_B), Some(NameB)}
WalkerExcludes ==
    {None, Some(<<>>), Some(<<DirA_B>>), Some(<<<<"a", "\\", "b">>>>),
     Some(<<NameB>>), Some(<<<<"x">>, DirAB>>), Some(<<<<"a", "/", "x">>>>)}
WalkerRoots ==
    {<<>>, <<DirA>>, <<DirAB>>, <<DirA, DirAB>>, <<DirA_B>>, <<DirNX>>,
     <<DirAB, DirNX>>}

ApplyGetIncludes ==
    /\ ret = <<>>
    /\ ret' = <<getIncludes(includes[1])>>
    /\ UNCHANGED <<instVars, filesToUpload, hookVars, loopVars, arg>>

InitWalker ==
    /\ Detached
    /\ source \in WalkerSources
    /\ excludes \in WalkerExcludes
    /\ includes \in {Some(roots) : roots \in WalkerRoots}
    /\ arg = <<>>
    /\ ret = <<>>

SpecWalker == InitWalker /\ [][ApplyGetIncludes]_vars

(***************************************************************************)
(* Properties.                                                             *)
(***************************************************************************)
QuietSet == quiet # None /\ quiet[1]
FinishedCount == Cardinality({k \in DOMAIN console : console[k] = "Finished!"})
AssetsPut == [k \in DOMAIN puts |-> puts[k].asset]
Collected == SubSeq(filesToUpload, emitBase + 1, Len(filesToUpload))

\* C1: fail-fast loop.  When the PUT of file k fails (a status other than
\* 200 or a thrown error) after the PUTs of files 1..k-1 succeeded, the run
\* has recorded exactly k-1 successful uploads, issues no PUT for a file
\* after k, has called cb(e) exactly once and never calls cb().
C1_FailFast ==
    \A k \in DOMAIN puts :
        puts[k].outcome = "failed" =>
            /\ k = Len(puts)
            /\ puts[k].pos = k
            /\ \A j \in 1..(k - 1) : puts[j].outcome = "ok"
            /\ Len(barUpdates) = k - 1
            /\ inflight = {}
            /\ cbErr = 1
            /\ cbOk = 0
            /\ ~barStopped
            /\ pc = "afterDone"

C1_Witness ==
    /\ pc = "afterDone"
    /\ Len(filesToUpload) = 3
    /\ Len(puts) = 2
    /\ puts[1].outcome = "ok"
    /\ puts[2].outcome = "failed"
    /\ cbErr = 1

\* C2: all-success loop.  The progress bar is updated with 1, 2, ..., N in
\* that order and never beyond N; when all N PUTs have succeeded the bar is
\* stopped, "Finished!" is logged once (not at all when quiet), and cb() is
\* called exactly once and cb(e) never.
C2_AllSuccess ==
    /\ \A k \in DOMAIN barUpdates : barUpdates[k] = k
    /\ Len(barUpdates) <= Len(filesToUpload)
    /\ barStopped => Len(barUpdates) = Len(filesToUpload)
    /\ FinishedCount > 0 => barStopped
    /\ ( /\ pc = "afterDone"
         /\ Len(puts) = Len(filesToUpload)
         /\ \A k \in DOMAIN puts : puts[k].outcome = "ok" )
       => /\ Len(barUpdates) = Len(filesToUpload)
          /\ barStopped
          /\ FinishedCount = IF QuietSet THEN 0 ELSE 1
          /\ cbOk = 1
          /\ cbErr = 0

C2_Witness ==
    /\ pc = "afterDone"
    /\ Len(puts) = 3
    /\ barUpdates = <<1, 2, 3>>
    /\ cbOk = 1
    /\ QuietSet
    /\ FinishedCount = 0

\* C3: uploads are sequential and in upload-set order.  At most one PUT is
\* in flight, the k-th PUT of a run is for position k of the upload set, and
\* a PUT is issued only after every earlier PUT was answered successfully.
C3_Sequential ==
    /\ Cardinality(inflight) <= 1
    /\ \A k \in DOMAIN puts :
           /\ puts[k].pos = k
           /\ puts[k].asset = filesToUpload[k]
           /\ k < Len(puts) => puts[k].outcome = "ok"
           /\ puts[k].outcome = "pending" <=> k \in inflight

C3_Witness ==
    /\ pc = "awaitPut"
    /\ Len(puts) = 2
    /\ inflight = {2}
    /\ puts[1].outcome = "ok"

\* C4: upload-set composition.  After the emit callback has run, the paths
\* it collected are the emitted asset names that pass shouldUpload, followed
\* by getIncludes of the include directories.
C4_UploadSetComposition ==
    pc = "emitted" =>
        Collected =
            SelectSeq(compilation.assets, shouldUpload) \o
            (IF includes # None THEN getIncludes(includes[1]).files ELSE <<>>)

\* C5: each hook calls its completion signal exactly once per invocation:
\* never twice, and once when the invocation has ended, whatever the
\* directory traversal, the file reads and the PUTs did.
C5_SignalExactlyOnce ==
    /\ emitCb <= 1
    /\ cbOk + cbErr <= 1
    /\ pc \in {"emitted", "emitThrew"} => emitCb = 1
    /\ pc \in {"afterDone", "afterThrew"} => cbOk + cbErr = 1

\* a is a string prefix of b
IsPrefixOf(a, b) == Len(a) <= Len(b) /\ \A j \in 1..Len(a) : a[j] = b[j]

ExcludeList == IF excludes = None THEN <<>> ELSE excludes[1]

\* C6: path filter.  shouldUpload(p) is true exactly when no exclude entry
\* is a prefix of p after backslashes in both are turned into slashes,
\* isExcluded(p) is its negation, and with an empty or absent exclude list
\* shouldUpload(p) is true.
C6_PathFilter ==
    ret # <<>> =>
        /\ ret[1] = ~(\E k \in DOMAIN ExcludeList :
                          IsPrefixOf(ReplaceBackslashes(ExcludeList[k]),
                                     ReplaceBackslashes(arg)))
        /\ ret[2] = ~ret[1]
        /\ ExcludeList = <<>> => ret[1]

C6_Witness ==
    /\ ret # <<>>
    /\ ret[1] = FALSE
    /\ Len(ExcludeList) = 2
    /\ ~IsPrefixOf(ReplaceBackslashes(ExcludeList[1]), ReplaceBackslashes(arg))
    /\ ~IsPrefixOf(ExcludeList[2], arg)

\* C7 as stated: the key of every PUT is prefix + "/" + f when the instance
\* has a prefix, source + "/" + f when it has only a source, f otherwise.
C7_KeyWhenConfigured ==
    \A k \in DOMAIN puts :
        LET f == fileName(puts[k].asset)
        IN  puts[k].key =
                IF prefix # None THEN prefix[1] \o <<"/">> \o f
                ELSE IF source # None THEN source[1] \o <<"/">> \o f
                ELSE f

\* C7, amended: the key of every PUT is prefix + "/" + f when the prefix is
\* not empty after removeSlashes, source + "/" + f when the prefix is absent
\* or empty and the source is not empty after removeSlashes, and f alone
\* otherwise; prefix and source are never both prepended.
C7_RemoteKey ==
    \A k \in DOMAIN puts :
        LET f == fileName(puts[k].asset)
            key == puts[k].key
        IN  /\ TruthyString(prefix) => key = prefix[1] \o <<"/">> \o f
            /\ ~TruthyString(prefix) /\ TruthyString(source)
                   => key = source[1] \o <<"/">> \o f
            /\ ~TruthyString(prefix) /\ ~TruthyString(source) => key = f
            /\ TruthyString(prefix) /\ TruthyString(source)
                   => ~IsPrefixOf(prefix[1] \o <<"/">> \o source[1] \o <<"/">>, key)

C7_Witness ==
    /\ puts # <<>>
    /\ TruthyString(prefix)
    /\ TruthyString(source)
    /\ puts[1].key = StrP \o <<"/">> \o NameB \o <<"/">> \o NameY

\* Every file below dir, depth first, by its joined path.
RECURSIVE filesBelow(_)
RECURSIVE filesOfItems(_, _, _)
filesBelow(dir) == filesOfItems(dir, readdirSync(dir), 1)

filesOfItems(dir, items, k) ==
    IF k > Len(items) THEN <<>>
    ELSE LET p == pathJoin(dir, items[k])
         IN  (IF FsIsDirectory(p) THEN filesBelow(p) ELSE <<p>>)
             \o filesOfItems(dir, items, k + 1)

\* The path left after stripping a leading source and the separator after it.
StripSource(p) ==
    IF source # None /\ IsPrefixOf(source[1] \o <<"/">>, p)
    THEN SubSeq(p, Len(source[1]) + 2, Len(p))
    ELSE p

\* Neither p nor a directory between root and p is excluded, and neither is
\* p with the source stripped.
WalkKeeps(root, p) ==
    /\ \A n \in (Len(root) + 1)..Len(p) :
           (n = Len(p) \/ p[n + 1] = "/") => ~isExcluded(SubSeq(p, 1, n))
    /\ ~isExcluded(StripSource(p))

RECURSIVE ClaimedIncludes(_, _)
ClaimedIncludes(roots, k) ==
    IF k > Len(roots) THEN <<>>
    ELSE LET kept == SelectSeq(filesBelow(roots[k]),
                               LAMBDA p : WalkKeeps(roots[k], p))
         IN  [j \in DOMAIN kept |-> ReplaceBackslashes(StripSource(kept[j]))]
             \o ClaimedIncludes(roots, k + 1)

\* C8: directory walker.  getIncludes(roots) returns, in depth-first order,
\* the files below the roots that the filter excludes neither by their
\* joined path, nor by a directory on the way down, nor by their path with
\* the source and the separator after it stripped; each is returned with the
\* source and that separator stripped and with forward slashes.
C8_DirectoryWalker ==
    (ret # <<>> /\ ~ret[1].threw) =>
        ret[1].files = ClaimedIncludes(includes[1], 1)

\* C9: the upload set is not reused across builds.  No PUT of a run is for
\* an entry the upload set held before this build's emit callback, and a
\* run that completes has PUT exactly the paths that callback collected.
C9_NoCarryOver ==
    /\ \A k \in DOMAIN puts : puts[k].pos > emitBase
    /\ (pc = "afterDone" /\ cbOk = 1) => AssetsPut = Collected

\* s with at most one leading and at most one trailing "/" removed
StripsAtMostOne(s, r) ==
    \E l \in {0, 1}, t \in {0, 1} :
        /\ l + t <= Len(s)
        /\ l = 1 => s[1] = "/"
        /\ t = 1 => s[Len(s)] = "/"
        /\ r = SubSeq(s, 1 + l, Len(s) - t)

DoubledSlash(s) ==
    /\ Len(s) >= 3
    /\ \/ (s[1] = "/" /\ s[2] = "/")
       \/ (s[Len(s)] = "/" /\ s[Len(s) - 1] = "/")

\* C10 as stated: removeSlashes applied twice gives what it gives applied
\* once, and it removes at most one leading and one trailing "/" and
\* nothing else.
C10_Idempotent ==
    /\ Len(ret) >= 1 => StripsAtMostOne(arg, ret[1])
    /\ Len(ret) = 2 => ret[2] = ret[1]

\* C10, amended: removeSlashes removes at most one leading and one trailing
\* "/" and nothing else; applied twice it gives what it gives applied once
\* exactly for the strings that are shorter than three characters or
\* neither begin nor end with two slashes.
C10_RemoveSlashes ==
    /\ Len(ret) >= 1 => StripsAtMostOne(arg, ret[1])
    /\ Len(ret) = 2 => (ret[2] = ret[1] <=> ~DoubledSlash(arg))

C10_Witness ==
    /\ Len(ret) = 2
    /\ arg = <<"/", "a", "/">>
    /\ ret[1] = <<"a">>
    /\ ret[2] = <<"a">>

=============================================================================
